---- MODULE Spec2Model ----
(***************************************************************************)
(* Model of onnx_coreml/_operators_nd.py: the per-operator converters that *)
(* translate one ONNX node into CoreML layers, the converter registry and  *)
(* the dispatcher _convert_node_nd.                                        *)
(*                                                                         *)
(* Python values are represented as follows.                               *)
(*   - a tensor (numpy array) is [shape |-> <<..>>, data |-> <<..>>] with  *)
(*     the data in row-major order;                                        *)
(*   - an optional value is <<>> (None) or <<v>>;                          *)
(*   - node.attrs and node.input_tensors are functions whose domain is the *)
(*     set of keys present;                                                *)
(*   - a raised exception is a conversion state whose err field names it;  *)
(*     statements after the raise have no effect.                          *)
(***************************************************************************)
EXTENDS Integers, Sequences, FiniteSets, TLC

VARIABLES layers, constants_loaded, shape_dict, err, done

vars == <<layers, constants_loaded, shape_dict, err, done>>

(***************************************************************************)
(* Bounds of the model.                                                    *)
(***************************************************************************)
MaxNodes == 2

MaxRank == 3

MaxHidden == 2

(***************************************************************************)
(* Program constants.                                                      *)
(***************************************************************************)
INT_MAX == 1073741824

(***************************************************************************)
(* Python helpers.                                                         *)
(***************************************************************************)
None == <<>>

Some(v) == <<v>>

IsNone(o) == Len(o) = 0

NoAttrs == [k \in {} |-> 0]

\* dict.get(k, default)
AttrGet(d, k, default) == IF k \in DOMAIN d THEN d[k] ELSE default

\* dict.get(k, None)
DictGet(d, k) == IF k \in DOMAIN d THEN Some(d[k]) ELSE None

\* str(i)
Str(i) == ToString(i)

\* [v] * n
Repeat(v, n) == [i \in 1..n |-> v]

\* list(range(n)), as 0-based axis numbers
Range0(n) == [i \in 1..n |-> i - 1]

(***************************************************************************)
(* numpy on [shape, data] tensors.                                         *)
(***************************************************************************)
Tensor(shape, data) == [shape |-> shape, data |-> data]

\* np.expand_dims(t, axis): a new axis of size 1 at position axis (0-based)
np_expand_dims(t, axis) ==
    Tensor(SubSeq(t.shape, 1, axis) \o <<1>> \o SubSeq(t.shape, axis + 1, Len(t.shape)),
           t.data)

\* np.squeeze(t): every axis of size 1 is removed
np_squeeze(t) ==
    Tensor(SelectSeq(t.shape, LAMBDA d : d # 1), t.data)

\* np.split(t, k) can be done: axis 0 divides into k equal sections
np_can_split(t, k) == Len(t.shape) > 0 /\ t.shape[1] % k = 0

\* np.split(t, k): the k equal sections of t along axis 0
np_split(t, k) ==
    LET n == Len(t.data) \div k
    IN  [i \in 1..k |->
            Tensor(<<t.shape[1] \div k>> \o Tail(t.shape),
                   SubSeq(t.data, (i - 1) * n + 1, i * n))]

\* a + b on arrays of one shape
np_add(a, b) == Tensor(a.shape, [i \in 1..Len(a.data) |-> a.data[i] + b.data[i]])

(***************************************************************************)
(* What a converter does, in order: the builder, graph and err calls it    *)
(* makes.  A converter is modelled by the sequence of its effects; Run     *)
(* applies them to the target network and stops at the first raise.        *)
(***************************************************************************)
Effect(op, layer, e) == [op |-> op, layer |-> layer, err |-> e]

Layer(kind, name, input_names, output_names, params) ==
    [kind |-> kind, name |-> name, input_names |-> input_names,
     output_names |-> output_names, params |-> params]

\* a builder.add_* call: one layer appended to the target network
Add(kind, name, input_names, output_names, params) ==
    Effect("add", Layer(kind, name, input_names, output_names, params), "none")

\* "if <name> not in graph.constants_loaded: builder.add_load_constant_nd(..,
\* output_name=<name>, ..); graph.constants_loaded.add(<name>)"
LoadIfNew(name, output_name, value, shape) ==
    Effect("load_if_new",
           Layer("load_constant_nd", name, <<>>, <<output_name>>,
                 [constant_value |-> value, shape |-> shape]),
           "none")

\* builder.add_load_constant_nd without a look at graph.constants_loaded
LoadAlways(name, output_name, value, shape) ==
    Add("load_constant_nd", name, <<>>, <<output_name>>,
        [constant_value |-> value, shape |-> shape])

\* raise
Fail(e) == Effect("raise", <<>>, e)

(***************************************************************************)
(* ErrorHandling (onnx_coreml/_error_utils.py): the three fatal reports    *)
(* raise, the warning returns.                                             *)
(***************************************************************************)
unsupported_op == <<Fail("unsupported_op")>>

unsupported_op_configuration == <<Fail("unsupported_op_configuration")>>

missing_initializer == <<Fail("missing_initializer")>>

unsupported_feature_warning == <<>>

(***************************************************************************)
(* The state a conversion acts on: the builder's layer list,               *)
(* graph.constants_loaded and the exception raised, if any.                *)
(***************************************************************************)
Conv(ls, cl, e) == [layers |-> ls, constants_loaded |-> cl, err |-> e]

Apply(st, e) ==
    CASE e.op = "add" ->
             [st EXCEPT !.layers = Append(@, e.layer)]
      [] e.op = "load_if_new" ->
             IF e.layer.output_names[1] \in st.constants_loaded
             THEN st
             ELSE [st EXCEPT !.layers = Append(@, e.layer),
                             !.constants_loaded = @ \cup {e.layer.output_names[1]}]
      [] e.op = "raise" ->
             [st EXCEPT !.err = e.err]

RECURSIVE Run(_, _, _)
Run(st, effects, i) ==
    IF i > Len(effects) \/ st.err # "none"
    THEN st
    ELSE Run(Apply(st, effects[i]), effects, i + 1)

\* shape=[1] if value.shape == () else value.shape
LoadShape(value) == IF value.shape = <<>> THEN <<1>> ELSE value.shape

(***************************************************************************)
(* _convert_concat                                                         *)
(***************************************************************************)
\* the body of the loop for input i (0-based)
concat_load_constant(node, i) ==
    IF node.inputs[i + 1] \in DOMAIN node.input_tensors
    THEN <<LoadIfNew(node.name \o "_load_constant_" \o Str(i), node.inputs[i + 1],
                     node.input_tensors[node.inputs[i + 1]],
                     LoadShape(node.input_tensors[node.inputs[i + 1]]))>>
    ELSE <<>>

RECURSIVE concat_load_constants(_, _)
concat_load_constants(node, i) ==
    IF i >= Len(node.inputs)
    THEN <<>>
    ELSE concat_load_constant(node, i) \o concat_load_constants(node, i + 1)

convert_concat(node, graph) ==
    concat_load_constants(node, 0)
    \o <<Add("concat_nd", node.name, node.inputs, <<node.outputs[1]>>,
             [axis |-> DictGet(node.attrs, "axis")])>>

(***************************************************************************)
(* _convert_constant                                                       *)
(***************************************************************************)
convert_constant(node, graph) ==
    IF "value" \notin DOMAIN node.attrs
    THEN <<Fail("KeyError")>>
    ELSE <<LoadAlways(node.name, node.outputs[1], node.attrs["value"],
                      LoadShape(node.attrs["value"])),
           \* graph.constants_loaded(node.outputs[0]) calls the set: a set is
           \* not callable, Python raises TypeError and the set is unchanged
           Fail("TypeError")>>

(***************************************************************************)
(* _convert_constant_of_shape                                              *)
(***************************************************************************)
\* output_shape.reshape(output_shape.shape[0], 1) for a rank-1 tensor
fill_output_shape(t) ==
    IF Len(t.shape) = 1 THEN Tensor(<<t.shape[1], 1>>, t.data) ELSE t

convert_constant_of_shape(node, graph) ==
    IF node.inputs[1] \in DOMAIN node.input_tensors
    THEN <<Add("fill_static", node.name, <<>>, <<node.outputs[1]>>,
               [output_shape |-> fill_output_shape(node.input_tensors[node.inputs[1]]),
                value |-> AttrGet(node.attrs, "value", <<0>>)[1]])>>
    ELSE <<Add("fill_dynamic", node.name, <<node.inputs[1]>>, <<node.outputs[1]>>,
               [value |-> AttrGet(node.attrs, "value", <<0>>)[1]])>>

(***************************************************************************)
(* _convert_gather                                                         *)
(***************************************************************************)
\* one of the two "load if constant and not yet loaded" blocks
gather_load(node, i, suffix) ==
    IF node.inputs[i + 1] \in DOMAIN node.input_tensors
    THEN <<LoadIfNew(node.name \o suffix, node.inputs[i + 1],
                     node.input_tensors[node.inputs[i + 1]],
                     LoadShape(node.input_tensors[node.inputs[i + 1]]))>>
    ELSE <<>>

\* the check of the input count moved behind the load of the data input
convert_gather_late_check(node, graph) ==
    gather_load(node, 0, "_load_data")
    \o (IF Len(node.inputs) # 2
        THEN unsupported_op_configuration
        ELSE gather_load(node, 1, "_load_indices")
             \o <<Add("gather", node.name, <<node.inputs[1], node.inputs[2]>>,
                      <<node.outputs[1]>>, [axis |-> AttrGet(node.attrs, "axis", 0)])>>)

convert_gather(node, graph) ==
    IF Len(node.inputs) # 2
    THEN unsupported_op_configuration
    ELSE gather_load(node, 0, "_load_data")
         \o gather_load(node, 1, "_load_indices")
         \o <<Add("gather", node.name, <<node.inputs[1], node.inputs[2]>>,
                  <<node.outputs[1]>>, [axis |-> AttrGet(node.attrs, "axis", 0)])>>

(***************************************************************************)
(* _convert_matmul                                                         *)
(***************************************************************************)
\* W is known and of rank 2: the weight is passed as a layer parameter
matmul_weight_as_layer_parameter(node) ==
    /\ node.inputs[2] \in DOMAIN node.input_tensors
    /\ Len(node.input_tensors[node.inputs[2]].shape) = 2

\* W is known and not of rank 2: it is loaded, whatever constants_loaded holds
matmul_load_weight(node) ==
    IF /\ node.inputs[2] \in DOMAIN node.input_tensors
       /\ Len(node.input_tensors[node.inputs[2]].shape) # 2
    THEN <<LoadAlways(node.name \o "_const_weight_input", node.inputs[2],
                      node.input_tensors[node.inputs[2]],
                      node.input_tensors[node.inputs[2]].shape)>>
    ELSE <<>>

convert_matmul(node, graph) ==
    matmul_load_weight(node)
    \o (IF matmul_weight_as_layer_parameter(node)
        THEN <<Add("batched_mat_mul", node.name, <<node.inputs[1]>>, <<node.outputs[1]>>,
                   [weight_matrix_rows |-> Some(node.input_tensors[node.inputs[2]].shape[1]),
                    weight_matrix_columns |-> Some(node.input_tensors[node.inputs[2]].shape[2]),
                    W |-> Some(node.input_tensors[node.inputs[2]])])>>
        ELSE <<Add("batched_mat_mul", node.name, <<node.inputs[1], node.inputs[2]>>,
                   <<node.outputs[1]>>,
                   [weight_matrix_rows |-> None, weight_matrix_columns |-> None,
                    W |-> None])>>)

(***************************************************************************)
(* _convert_lstm                                                           *)
(***************************************************************************)
GateResult(e, W_x, W_h, b) == [err |-> e, W_x |-> W_x, W_h |-> W_h, b |-> b]

\* np.split(np.squeeze(np.expand_dims(np.expand_dims(t, 3), 3)), 4)
gate_split_ok(t) == np_can_split(np_squeeze(np_expand_dims(np_expand_dims(t, 3), 3)), 4)

gate_split(t) == np_split(np_squeeze(np_expand_dims(np_expand_dims(t, 3), 3)), 4)

\* [W_i, W_f, W_o, W_c] out of W_i, W_o, W_f, W_c
gate_order(c) == <<c[1], c[3], c[2], c[4]>>

\* [b_Wi + b_Ri, b_Wf + b_Rf, b_Wo + b_Ro, b_Wc + b_Rc] out of
\* b_Wi, b_Wo, b_Wf, b_Wc, b_Ri, b_Ro, b_Rf, b_Rc
gate_bias(c) ==
    <<np_add(c[1], c[5]), np_add(c[3], c[7]), np_add(c[2], c[6]), np_add(c[4], c[8])>>

\* the gate chunks and the bias sums left in ONNX order (input, output,
\* forget, cell)
get_weights_onnx_order(W, W_name, R, R_name, B) ==
    GateResult("none", gate_split(W[1]), gate_split(R[1]),
               IF IsNone(B) THEN None
               ELSE Some([k \in 1..4 |-> np_add(np_split(np_squeeze(B[1]), 8)[k],
                                                np_split(np_squeeze(B[1]), 8)[k + 4])]))

\* get_weights: W, R and B are optional tensors (None is <<>>)
get_weights(W, W_name, R, R_name, B) ==
    \* np.expand_dims(None, 3) is applied before the "is None" tests: numpy
    \* rejects axis 3 of a 0-d array, and of any array of rank below 3
    IF IsNone(W) \/ IsNone(R)
    THEN GateResult("AxisError", <<>>, <<>>, None)
    ELSE IF Len(W[1].shape) < 3 \/ Len(R[1].shape) < 3
    THEN GateResult("AxisError", <<>>, <<>>, None)
    \* "if W is None" and "if R is None" are tested on the expanded arrays,
    \* which are never None: err.missing_initializer is not called
    ELSE IF ~gate_split_ok(W[1]) \/ ~gate_split_ok(R[1])
    THEN GateResult("ValueError", <<>>, <<>>, None)
    ELSE IF IsNone(B)
    THEN GateResult("none", gate_order(gate_split(W[1])), gate_order(gate_split(R[1])), None)
    ELSE IF ~np_can_split(np_squeeze(B[1]), 8)
    THEN GateResult("ValueError", <<>>, <<>>, None)
    ELSE GateResult("none", gate_order(gate_split(W[1])), gate_order(gate_split(R[1])),
                    Some(gate_bias(np_split(np_squeeze(B[1]), 8))))

\* expand_dim: one builder.add_expand_dims call
expand_dim(node_name, input_name, output_name, axes) ==
    Add("expand_dims", node_name, <<input_name>>, <<output_name>>, [axes |-> axes])

\* lines 191-194: the direction read from the attribute
lstm_direction(attrs) ==
    IF "direction" \in DOMAIN attrs /\ attrs["direction"] = "bidirectional"
    THEN 2 ELSE 1

\* lines 225-230 and 246: the names of the state inputs and outputs
lstm_input_h(node) ==
    IF Len(node.inputs) > 5 THEN node.inputs[6] ELSE node.inputs[1] \o "_h_input"

lstm_input_c(node) ==
    IF Len(node.inputs) < 6 THEN lstm_input_h(node)
    ELSE IF Len(node.inputs) > 6 THEN node.inputs[7]
    ELSE node.inputs[1] \o "_c_input"

lstm_output_h(node) ==
    IF Len(node.outputs) > 1 THEN node.outputs[2] ELSE node.outputs[1] \o "_h_output"

lstm_output_c(node) ==
    IF Len(node.outputs) > 2 THEN node.outputs[3] ELSE node.outputs[1] \o "_c_output"

lstm_peepholes(node) == IF Len(node.inputs) > 7 THEN Some(node.inputs[8]) ELSE None

lstm_hidden_size(node) == AttrGet(node.attrs, "hidden_size", None)

\* inner, cell state update and output activation
lstm_activations(node) ==
    IF "activations" \in DOMAIN node.attrs
    THEN SubSeq(node.attrs["activations"], 1, 3)
    ELSE <<"SIGMOID", "TANH", "TANH">>

\* the parameters both LSTM layers take
lstm_params(node, gw, gwb, peep, peep_back) ==
    [W_h |-> gw.W_h, W_x |-> gw.W_x, b |-> gw.b,
     W_h_back |-> gwb.W_h, W_x_back |-> gwb.W_x, b_back |-> gwb.b,
     hidden_size |-> lstm_hidden_size(node), input_size |-> gw.W_x[1].shape[2],
     activations |-> lstm_activations(node), peep |-> peep, peep_back |-> peep_back,
     coupled_input_forget_gate |-> (AttrGet(node.attrs, "input_forget", 0) = 1),
     cell_clip_threshold |-> AttrGet(node.attrs, "clip", 500000)]

\* lines 238-246: the zero initial state, loaded when fewer than 6 inputs
lstm_initial_state(node, direction, batch_size) ==
    IF Len(node.inputs) < 6
    THEN <<LoadAlways(node.name \o "_load_initial_h_and_c", lstm_input_h(node), 0,
                      <<direction, batch_size, lstm_hidden_size(node)>>)>>
    ELSE <<>>

\* the three expand_dim calls of step i of the chain (lines 257-259, 264-266)
lstm_expand_step(node, total_dims, i) ==
    <<expand_dim(node.name \o "_expand_in_" \o Str(i),
                 IF i = 0 THEN node.inputs[1]
                 ELSE node.inputs[1] \o "_expand_out_" \o Str(i - 1),
                 node.inputs[1] \o "_expand_out_" \o Str(i), <<total_dims + i>>),
      expand_dim(node.name \o "_expand_in_h_" \o Str(i),
                 IF i = 0 THEN lstm_input_h(node)
                 ELSE lstm_input_h(node) \o "_expand_out_h_" \o Str(i - 1),
                 lstm_input_h(node) \o "_expand_out_h_" \o Str(i), <<total_dims + i>>),
      expand_dim(node.name \o "_expand_in_c_" \o Str(i),
                 IF i = 0 THEN lstm_input_c(node)
                 ELSE lstm_input_c(node) \o "_expand_out_c_" \o Str(i - 1),
                 lstm_input_c(node) \o "_expand_out_c_" \o Str(i), <<total_dims + i>>)>>

RECURSIVE lstm_expand_loop(_, _, _)
lstm_expand_loop(node, total_dims, i) ==
    IF i >= 5 - total_dims
    THEN <<>>
    ELSE lstm_expand_step(node, total_dims, i) \o lstm_expand_loop(node, total_dims, i + 1)

\* lines 253-266: the rank expansion of the data input and the two states
lstm_expand(node, total_dims) ==
    IF total_dims < 5 THEN lstm_expand_loop(node, total_dims, 0) ELSE <<>>

\* str(add_nodes-1)
lstm_last(total_dims) == Str((5 - total_dims) - 1)

\* lines 268-298: direction == 1
lstm_uni(node, gw, total_dims) ==
    (IF IsNone(lstm_peepholes(node)) THEN <<>>
     ELSE <<Add("reshape_static", node.name \o "_peephole_reshape",
                <<lstm_peepholes(node)[1]>>, <<lstm_peepholes(node)[1] \o "_reshaped">>,
                [output_shape |-> <<lstm_hidden_size(node), lstm_hidden_size(node),
                                    lstm_hidden_size(node)>>])>>)
    \* add_nodes is bound only when the rank of the input is below 5
    \o (IF total_dims >= 5 THEN <<Fail("NameError")>>
        ELSE <<Add("unilstm", node.name,
                   <<node.inputs[1] \o "_expand_out_" \o lstm_last(total_dims),
                     lstm_input_h(node) \o "_expand_out_h_" \o lstm_last(total_dims),
                     lstm_input_c(node) \o "_expand_out_c_" \o lstm_last(total_dims)>>,
                   <<node.outputs[1] \o "_5d_out", lstm_output_h(node) \o "_5d",
                     lstm_output_c(node) \o "_5d">>,
                   lstm_params(node, gw, GateResult("none", None, None, None),
                               IF IsNone(lstm_peepholes(node)) THEN None
                               ELSE Some(lstm_peepholes(node)[1] \o "_reshaped"),
                               None))>>)

\* lines 305-323: the peephole reshape and split of direction == 2
lstm_bidir_peepholes(node) ==
    IF IsNone(lstm_peepholes(node)) THEN <<>>
    ELSE <<Add("reshape_static", node.name \o "_peephole_reshape",
               <<lstm_peepholes(node)[1]>>, <<lstm_peepholes(node)[1] \o "_reshaped">>,
               [output_shape |-> <<2, lstm_hidden_size(node), lstm_hidden_size(node),
                                   lstm_hidden_size(node)>>]),
           Add("split_nd", node.name \o "_peephole_split",
               <<lstm_peepholes(node)[1] \o "_reshaped">>,
               <<lstm_peepholes(node)[1] \o "_f", lstm_peepholes(node)[1] \o "_b">>,
               [axis |-> 0])>>

\* lines 325-379: the state splits, the layer and the two concatenations
lstm_bidir_layers(node, gw, gwb, input_h, input_c, output_h, output_c, last) ==
    <<Add("split_nd", node.name \o "_split_h", <<input_h \o "_expand_out_h_" \o last>>,
          <<input_h \o "_f", input_h \o "_b">>, [axis |-> 0])>>
    \o (IF input_h # input_c
        THEN <<Add("split_nd", node.name \o "_split_c",
                   <<input_c \o "_expand_out_c_" \o last>>,
                   <<input_c \o "_f", input_c \o "_b">>, [axis |-> 0])>>
        ELSE <<>>)
    \o <<Add("bidirlstm", node.name,
             <<node.inputs[1] \o "_expand_out_" \o last, input_h \o "_f", input_c \o "_f",
               input_h \o "_b", input_c \o "_b">>,
             <<node.outputs[1] \o "_5d_out", output_h \o "_f", output_c \o "_f",
               output_h \o "_b", output_c \o "_b">>,
             \* peep=peephole_f, peep_back=peephole_b, both still None: the
             \* split's output names were bound to peepholes_f, peepholes_b
             lstm_params(node, gw, gwb, None, None)),
         Add("concat_nd", node.name \o "concat_output_h",
             <<output_h \o "_f", output_h \o "_b">>, <<output_h \o "_5d">>,
             [axis |-> Some(0)]),
         Add("concat_nd", node.name \o "concat_output_c",
             <<output_c \o "_f", output_c \o "_b">>, <<output_c \o "_5d">>,
             [axis |-> Some(0)])>>

\* lines 299-379: direction == 2; W, R, B are the lists np.split gave and
\* gwb is get_weights of their second entries
lstm_bidir(node, gw, gwb, W, R, B, total_dims) ==
    (IF Len(W) # 2 /\ Len(R) # 2 /\ Len(B) # 2
     THEN unsupported_op_configuration ELSE <<>>)
    \o (IF gwb.err # "none" THEN <<Fail(gwb.err)>>
        ELSE lstm_bidir_peepholes(node)
             \* add_nodes is bound only when the rank of the input is below 5
             \o (IF total_dims >= 5 THEN <<Fail("NameError")>>
                 ELSE lstm_bidir_layers(node, gw, gwb, lstm_input_h(node),
                                        lstm_input_c(node), lstm_output_h(node),
                                        lstm_output_c(node), lstm_last(total_dims))))

\* lines 384-423: output shape normalisation
lstm_outputs(node, direction, out, output_h, output_c) ==
    <<Add("rank_preserving_reshape", node.name \o "_reshape_",
          <<out \o "_5d_out">>, <<out \o "_5d_reshaped">>,
          [output_shape |-> <<0, 0, direction, -1, 0>>]),
      Add("squeeze", node.name \o "_squeeze_out",
          <<out \o "_5d_reshaped">>, <<out \o "_4d">>, [axes |-> <<-1>>]),
      Add("transpose", node.name \o "_transpose",
          <<out \o "_4d">>, <<out>>, [axes |-> <<0, 2, 1, 3>>]),
      Add("squeeze", node.name \o "_squeeze_out_h",
          <<output_h \o "_5d">>, <<output_h>>, [axes |-> <<-1, -2>>]),
      Add("squeeze", node.name \o "_squeeze_out_c",
          <<output_c \o "_5d">>, <<output_c>>, [axes |-> <<-1, -2>>])>>

\* lines 219-423, with W, R, B the lists np.split gave
lstm_body(node, graph, direction, gw, W, R, B) ==
    IF gw.err # "none" THEN <<Fail(gw.err)>>
    \* input_size = W_x[0].shape[1]
    ELSE IF Len(gw.W_x[1].shape) < 2 THEN <<Fail("IndexError")>>
    ELSE IF node.inputs[1] \notin DOMAIN graph.shape_dict THEN unsupported_op_configuration
    \* batch_size = graph.shape_dict[node.inputs[0]][1]
    ELSE IF Len(graph.shape_dict[node.inputs[1]]) < 2 THEN <<Fail("IndexError")>>
    ELSE lstm_initial_state(node, direction, graph.shape_dict[node.inputs[1]][2])
         \o lstm_expand(node, Len(graph.shape_dict[node.inputs[1]]))
         \o (CASE direction = 1 ->
                    lstm_uni(node, gw, Len(graph.shape_dict[node.inputs[1]]))
               [] direction = 2 ->
                    lstm_bidir(node, gw,
                               get_weights(Some(W[2]), node.inputs[2], Some(R[2]),
                                           node.inputs[3], B[2]),
                               W, R, B, Len(graph.shape_dict[node.inputs[1]]))
               [] OTHER -> unsupported_op_configuration)
         \o lstm_outputs(node, direction, node.outputs[1], lstm_output_h(node),
                         lstm_output_c(node))

\* B = node.input_tensors.get(B_name, None) when there are more than 3 inputs
lstm_B(node) ==
    IF Len(node.inputs) > 3 THEN DictGet(node.input_tensors, node.inputs[4]) ELSE None

\* lines 211-216: B split by direction, or [None, None]
lstm_split_B(B, direction) ==
    IF IsNone(B) THEN <<None, None>>
    ELSE [i \in 1..direction |-> Some(np_split(B[1], direction)[i])]

\* lines 208-423, with W, R and B the optional tensors read from the node
lstm_weights(node, graph, direction, W, R, B) ==
    \* np.split(None, direction): None has no shape
    IF IsNone(W) \/ IsNone(R) THEN <<Fail("AttributeError")>>
    ELSE IF ~np_can_split(W[1], direction) \/ ~np_can_split(R[1], direction)
    THEN <<Fail("ValueError")>>
    ELSE IF ~IsNone(B) /\ ~np_can_split(B[1], direction)
    THEN <<Fail("ValueError")>>
    ELSE lstm_body(node, graph, direction,
                   get_weights(Some(np_split(W[1], direction)[1]), node.inputs[2],
                               Some(np_split(R[1], direction)[1]), node.inputs[3],
                               lstm_split_B(B, direction)[1]),
                   np_split(W[1], direction), np_split(R[1], direction),
                   lstm_split_B(B, direction))

convert_lstm(node, graph) ==
    \* activation_alpha / activation_beta, and six activations, only warn
    IF "activations" \in DOMAIN node.attrs /\ Len(node.attrs["activations"]) < 3
    THEN unsupported_op_configuration
    ELSE unsupported_feature_warning
         \o lstm_weights(node, graph, lstm_direction(node.attrs),
                         DictGet(node.input_tensors, node.inputs[2]),
                         DictGet(node.input_tensors, node.inputs[3]),
                         lstm_B(node))

(***************************************************************************)
(* _convert_reshape                                                        *)
(***************************************************************************)
\* number of entries of s equal to v
RECURSIVE Count(_, _)
Count(s, v) ==
    IF Len(s) = 0 THEN 0
    ELSE (IF Head(s) = v THEN 1 ELSE 0) + Count(Tail(s), v)

\* the value of i when "for i in range(len(output_shape))" ends: the
\* 0-based position of the first -1, else of the last entry, else 0
RECURSIVE reshape_break_index(_, _)
reshape_break_index(output_shape, i) ==
    IF Len(output_shape) = 0 THEN 0
    ELSE IF i >= Len(output_shape) - 1 THEN Len(output_shape) - 1
    ELSE IF output_shape[i + 1] = -1 THEN i
    ELSE reshape_break_index(output_shape, i + 1)

\* the entries the loop appends: those up to the break
reshape_copied(output_shape, i) ==
    IF Len(output_shape) = 0 THEN <<>> ELSE SubSeq(output_shape, 1, i + 1)

\* "while i < len_of_input_shape-1: new_shape.append(1); i += 1"
reshape_ones(len_of_input_shape, i) ==
    IF len_of_input_shape - 1 - i > 0 THEN Repeat(1, len_of_input_shape - 1 - i) ELSE <<>>

\* lines 496-504: new_shape
reshape_new_shape(output_shape, len_of_input_shape) ==
    reshape_copied(output_shape, reshape_break_index(output_shape, 0))
    \o reshape_ones(len_of_input_shape, reshape_break_index(output_shape, 0))

\* lines 513-514: list(range(len(output_shape) - len_of_input_shape, 0)), reversed
reshape_squeeze_axes(len_out, len_of_input_shape) ==
    [j \in 1..(len_of_input_shape - len_out) |-> -j]

\* the count of -1 entries tested only after the two layers of the rank
\* reduction were added
reshape_static_late_check(node, output_shape, len_of_input_shape) ==
    IF Len(output_shape) = len_of_input_shape
    THEN <<Add("rank_preserving_reshape", node.name, <<node.inputs[1]>>,
               <<node.outputs[1]>>, [output_shape |-> output_shape])>>
    ELSE IF /\ len_of_input_shape > Len(output_shape)
            /\ Count(output_shape, -1) + Count(output_shape, 0) = Len(output_shape)
    THEN <<Add("rank_preserving_reshape", node.name \o "_reshape_preserving",
               <<node.inputs[1]>>, <<node.outputs[1] \o "_reshape_dim_preserved">>,
               [output_shape |-> reshape_new_shape(output_shape, len_of_input_shape)]),
           Add("squeeze", node.name, <<node.outputs[1] \o "_reshape_dim_preserved">>,
               <<node.outputs[1]>>,
               [axes |-> reshape_squeeze_axes(Len(output_shape), len_of_input_shape)])>>
         \o (IF Count(output_shape, -1) > 1 THEN unsupported_op_configuration ELSE <<>>)
    ELSE IF len_of_input_shape > Len(output_shape) /\ Count(output_shape, -1) > 1
    THEN unsupported_op_configuration
    ELSE <<Add("reshape_static", node.name, <<node.inputs[1]>>, <<node.outputs[1]>>,
               [output_shape |-> output_shape])>>

\* lines 470-529, the shape being a constant and the input's rank known
reshape_static(node, output_shape, len_of_input_shape) ==
    IF Len(output_shape) = len_of_input_shape
    THEN <<Add("rank_preserving_reshape", node.name, <<node.inputs[1]>>,
               <<node.outputs[1]>>, [output_shape |-> output_shape])>>
    ELSE IF len_of_input_shape > Len(output_shape) /\ Count(output_shape, -1) > 1
    THEN unsupported_op_configuration
    ELSE IF /\ len_of_input_shape > Len(output_shape)
            /\ Count(output_shape, -1) + Count(output_shape, 0) = Len(output_shape)
    THEN <<Add("rank_preserving_reshape", node.name \o "_reshape_preserving",
               <<node.inputs[1]>>, <<node.outputs[1] \o "_reshape_dim_preserved">>,
               [output_shape |-> reshape_new_shape(output_shape, len_of_input_shape)]),
           Add("squeeze", node.name, <<node.outputs[1] \o "_reshape_dim_preserved">>,
               <<node.outputs[1]>>,
               [axes |-> reshape_squeeze_axes(Len(output_shape), len_of_input_shape)])>>
    ELSE <<Add("reshape_static", node.name, <<node.inputs[1]>>, <<node.outputs[1]>>,
               [output_shape |-> output_shape])>>

convert_reshape(node, graph) ==
    IF node.inputs[2] \in DOMAIN node.input_tensors
    THEN IF node.inputs[1] \notin DOMAIN graph.shape_dict
         THEN unsupported_op_configuration
         ELSE reshape_static(node, node.input_tensors[node.inputs[2]].data,
                             Len(graph.shape_dict[node.inputs[1]]))
    ELSE <<Add("reshape_dynamic", node.name, node.inputs, <<node.outputs[1]>>, NoAttrs)>>

(***************************************************************************)
(* _convert_slice                                                          *)
(***************************************************************************)
\* a Python list index (negative counts from the end) as a 1-based position
PyIndex(a, n) == IF a < 0 THEN a + n + 1 ELSE a + 1

SliceArrays(starts, ends, begin_masks, end_masks, e) ==
    [starts |-> starts, ends |-> ends, begin_masks |-> begin_masks,
     end_masks |-> end_masks, err |-> e]

\* line 563: the test that clears the end mask of an axis
slice_end_test(end, size) == end # INT_MAX \/ end < size

\* lines 560-567: the body of the loop, for the axis at 1-based position p
slice_axis(a, p, start, end, size) ==
    [a EXCEPT !.starts[p] = start,
              !.ends[p] = end,
              !.end_masks[p] = IF slice_end_test(end, size) THEN FALSE ELSE @,
              !.begin_masks[p] = IF start # 0 THEN FALSE ELSE @]

\* lines 559-567: the loop over axes, from i (0-based) on
RECURSIVE slice_loop(_, _, _, _, _, _)
slice_loop(a, axes, ip_starts, ip_ends, data_shape, i) ==
    IF i >= Len(axes) \/ a.err # "none" THEN a
    \* node.attrs.get('starts') / get('ends') is None when the attribute is absent
    ELSE IF IsNone(ip_starts) \/ IsNone(ip_ends) THEN [a EXCEPT !.err = "TypeError"]
    ELSE IF \/ PyIndex(axes[i + 1], Len(data_shape)) < 1
            \/ PyIndex(axes[i + 1], Len(data_shape)) > Len(data_shape)
            \/ i + 1 > Len(ip_starts[1])
            \/ i + 1 > Len(ip_ends[1])
    THEN [a EXCEPT !.err = "IndexError"]
    ELSE slice_loop(slice_axis(a, PyIndex(axes[i + 1], Len(data_shape)),
                               ip_starts[1][i + 1], ip_ends[1][i + 1],
                               data_shape[PyIndex(axes[i + 1], Len(data_shape))]),
                    axes, ip_starts, ip_ends, data_shape, i + 1)

\* lines 545-567: the arrays after the loop
slice_arrays(node, data_shape) ==
    slice_loop(SliceArrays(Repeat(0, Len(data_shape)), Repeat(0, Len(data_shape)),
                           Repeat(TRUE, Len(data_shape)), Repeat(TRUE, Len(data_shape)),
                           "none"),
               AttrGet(node.attrs, "axes", Range0(Len(data_shape))),
               DictGet(node.attrs, "starts"), DictGet(node.attrs, "ends"),
               data_shape, 0)

\* lines 569-578
slice_layer(node, a, steps) ==
    IF a.err # "none"
    THEN <<Fail(a.err)>>
    ELSE <<Add("slice_static", node.name, <<node.inputs[1]>>, <<node.outputs[1]>>,
               [begin_ids |-> a.starts, end_ids |-> a.ends, strides |-> steps,
                begin_masks |-> a.begin_masks, end_masks |-> a.end_masks])>>

convert_slice(node, graph) ==
    IF node.inputs[1] \notin DOMAIN graph.shape_dict
    THEN <<Fail("KeyError")>>
    ELSE slice_layer(node, slice_arrays(node, graph.shape_dict[node.inputs[1]]),
                     AttrGet(node.attrs, "steps",
                             Repeat(1, Len(graph.shape_dict[node.inputs[1]]))))

(***************************************************************************)
(* _convert_split, _convert_squeeze, _convert_shape, _convert_transpose,   *)
(* _convert_unsqueeze, and _convert_relu of onnx_coreml/_operators.py      *)
(***************************************************************************)
convert_split(node, graph) ==
    <<Add("split_nd", node.name, <<node.inputs[1]>>, node.outputs,
          [axis |-> AttrGet(node.attrs, "axis", 0)])>>

convert_squeeze(node, graph) ==
    <<Add("squeeze", node.name, <<node.inputs[1]>>, <<node.outputs[1]>>,
          [axes |-> DictGet(node.attrs, "axes")])>>

convert_shape(node, graph) ==
    <<Add("get_shape", node.name, <<node.inputs[1]>>, <<node.outputs[1]>>, NoAttrs)>>

convert_transpose(node, graph) ==
    IF AttrGet(node.attrs, "perm", <<>>) # <<>>
    THEN <<Add("transpose", node.name, <<node.inputs[1]>>, <<node.outputs[1]>>,
               [axes |-> node.attrs["perm"]])>>
    ELSE IF node.inputs[1] \notin DOMAIN graph.shape_dict
    THEN <<Fail("KeyError")>>
    \* list(range(-1, -(rank+1), -1))
    ELSE <<Add("transpose", node.name, <<node.inputs[1]>>, <<node.outputs[1]>>,
               [axes |-> [j \in 1..Len(graph.shape_dict[node.inputs[1]]) |-> -j]])>>

convert_unsqueeze(node, graph) ==
    <<Add("expand_dims", node.name, <<node.inputs[1]>>, <<node.outputs[1]>>,
          [axes |-> DictGet(node.attrs, "axes")])>>

convert_relu(node, graph) ==
    <<Add("activation", node.name, <<node.inputs[1]>>, <<node.outputs[1]>>,
          [non_linearity |-> "RELU"])>>

(***************************************************************************)
(* _ONNX_NODE_REGISTRY_ND, _get_node_converter_fn, _convert_node_nd        *)
(***************************************************************************)
\* op type -> the converter registered for it (a function value in Python,
\* here its name)
ONNX_NODE_REGISTRY_ND ==
    [op \in {"Concat", "Constant", "ConstantOfShape", "Gather", "LSTM", "MatMul",
             "Relu", "Reshape", "Slice", "Split", "Shape", "Squeeze", "Transpose",
             "Unsqueeze"} |->
        CASE op = "Concat"          -> "_convert_concat"
          [] op = "Constant"        -> "_convert_constant"
          [] op = "ConstantOfShape" -> "_convert_constant_of_shape"
          [] op = "Gather"          -> "_convert_gather"
          [] op = "LSTM"            -> "_convert_lstm"
          [] op = "MatMul"          -> "_convert_matmul"
          [] op = "Relu"            -> "_convert_relu"
          [] op = "Reshape"         -> "_convert_reshape"
          [] op = "Slice"           -> "_convert_slice"
          [] op = "Split"           -> "_convert_split"
          [] op = "Shape"           -> "_convert_shape"
          [] op = "Squeeze"         -> "_convert_squeeze"
          [] op = "Transpose"       -> "_convert_transpose"
          [] op = "Unsqueeze"       -> "_convert_unsqueeze"]

\* converter_fn(builder, node, graph, err): the call of a function value
CallConverter(fn, node, graph) ==
    CASE fn = "_convert_concat"            -> convert_concat(node, graph)
      [] fn = "_convert_constant"          -> convert_constant(node, graph)
      [] fn = "_convert_constant_of_shape" -> convert_constant_of_shape(node, graph)
      [] fn = "_convert_gather"            -> convert_gather(node, graph)
      [] fn = "_convert_lstm"              -> convert_lstm(node, graph)
      [] fn = "_convert_matmul"            -> convert_matmul(node, graph)
      [] fn = "_convert_relu"              -> convert_relu(node, graph)
      [] fn = "_convert_reshape"           -> convert_reshape(node, graph)
      [] fn = "_convert_slice"             -> convert_slice(node, graph)
      [] fn = "_convert_split"             -> convert_split(node, graph)
      [] fn = "_convert_shape"             -> convert_shape(node, graph)
      [] fn = "_convert_squeeze"           -> convert_squeeze(node, graph)
      [] fn = "_convert_transpose"         -> convert_transpose(node, graph)
      [] fn = "_convert_unsqueeze"         -> convert_unsqueeze(node, graph)

\* what _get_node_converter_fn gives: the converter found, if any, and the
\* effects of looking it up
Lookup(fn, effects) == [fn |-> fn, effects |-> effects]

\* the unsupported-operator report of an unregistered op type is left out
get_node_converter_fn_silent(node) ==
    IF node.op_type \in DOMAIN ONNX_NODE_REGISTRY_ND
    THEN Lookup(Some(ONNX_NODE_REGISTRY_ND[node.op_type]), <<>>)
    ELSE Lookup(None, <<>>)

\* _get_node_converter_fn: the registered converter, or err.unsupported_op(node)
get_node_converter_fn(node) ==
    IF node.op_type \in DOMAIN ONNX_NODE_REGISTRY_ND
    THEN Lookup(Some(ONNX_NODE_REGISTRY_ND[node.op_type]), <<>>)
    ELSE Lookup(None, unsupported_op)

\* the call converter_fn(builder, node, graph, err) of _convert_node_nd
call_converter_fn(found, node, graph) ==
    IF IsNone(found.fn)
    \* reached only if the lookup did not raise: None is not callable
    THEN [effects |-> found.effects \o <<Fail("TypeError")>>, called |-> <<>>]
    ELSE [effects |-> found.effects \o CallConverter(found.fn[1], node, graph),
          called |-> <<found.fn[1]>>]

\* _convert_node_nd: its effects and the converters it calls
convert_node_nd(node, graph) == call_converter_fn(get_node_converter_fn(node), node, graph)

(***************************************************************************)
(* The graph the converters are run on: Node objects, the initializers     *)
(* (compile-time constants) and graph.shape_dict.                          *)
(***************************************************************************)
Node(op_type, name, inputs, outputs, attrs, input_tensors) ==
    [op_type |-> op_type, name |-> name, inputs |-> inputs, outputs |-> outputs,
     attrs |-> attrs, input_tensors |-> input_tensors]

\* 1, 2, .., n shifted by base: data whose entries are all different
Iota(base, n) == [i \in 1..n |-> base + i]

\* LSTM weights W[num_dir, 4*h, input_size], R[num_dir, 4*h, h], B[num_dir, 8*h]
LstmW(num_dir, h, base) == Tensor(<<num_dir, 4 * h, 2>>, Iota(base, num_dir * 4 * h * 2))

LstmR(num_dir, h, base) == Tensor(<<num_dir, 4 * h, h>>, Iota(base, num_dir * 4 * h * h))

LstmB(num_dir, h, base) == Tensor(<<num_dir, 8 * h>>, Iota(base, num_dir * 8 * h))

\* the initializers of the graph, by tensor name
Initializers ==
    [k \in {"K0", "K2", "K3", "I", "S", "W", "R", "B", "Wb", "Rb", "Bb"} |->
        CASE k = "K0" -> Tensor(<<>>, <<7>>)
          [] k = "K2" -> Tensor(<<2, 2>>, <<1, 2, 3, 4>>)
          [] k = "K3" -> Tensor(<<1, 2, 2>>, <<1, 2, 3, 4>>)
          [] k = "I"  -> Tensor(<<2>>, <<0, 1>>)
          [] k = "S"  -> Tensor(<<2>>, <<0, -1>>)
          [] k = "W"  -> LstmW(1, 1, 0)
          [] k = "R"  -> LstmR(1, 1, 20)
          [] k = "B"  -> LstmB(1, 1, 40)
          [] k = "Wb" -> LstmW(2, 1, 0)
          [] k = "Rb" -> LstmR(2, 1, 20)
          [] k = "Bb" -> LstmB(2, 1, 40)]

\* the tensors the graph is fed at run time
GraphInputs == {"X", "X5", "H0", "C0", "P"}

\* node.input_tensors: the inputs of the node that are initializers
InputTensors(inputs) ==
    [k \in {inputs[i] : i \in 1..Len(inputs)} \cap DOMAIN Initializers |-> Initializers[k]]

\* node.outputs of node name with k outputs
Outputs(name, k) == [i \in 1..k |-> name \o "_o" \o Str(i - 1)]

\* shape_dict with the shapes of the graph inputs and of the first node's
\* output known
ShapesInferred ==
    [k \in {"X", "X5", "H0", "C0", "n1_o0"} |->
        CASE k = "X"     -> <<2, 1, 2>>
          [] k = "X5"    -> <<2, 1, 2, 1, 1>>
          [] k = "H0"    -> <<1, 1, 1>>
          [] k = "C0"    -> <<1, 1, 1>>
          [] k = "n1_o0" -> <<2, 1, 2>>]

\* shape_dict with the shapes of the graph inputs only
ShapesOfInputs == [k \in {"X", "X5", "H0", "C0"} |-> ShapesInferred[k]]

(***************************************************************************)
(* The traversal driver: one call of _convert_node_nd per node, in         *)
(* dependency order, until a conversion raises.                            *)
(***************************************************************************)
\* the name of the next node
Fresh == "n" \o Str(Len(done) + 1)

\* run-time tensors a next node may read: a graph input or the output of
\* the node before it
Data == {"X"} \cup (IF Len(done) > 0 THEN {done[Len(done)].node.outputs[1]} ELSE {})

CanConvert == err = "none" /\ Len(done) < MaxNodes

Graph == [shape_dict |-> shape_dict]

\* the network, the loaded set and the exception after the effects
Converted(effects) == Run(Conv(layers, constants_loaded, "none"), effects, 1)

\* the state after _convert_node_nd, r being what it does for node n
Converts(n, r) ==
    /\ layers' = Converted(r.effects).layers
    /\ constants_loaded' = Converted(r.effects).constants_loaded
    /\ err' = Converted(r.effects).err
    /\ done' = Append(done, [node |-> n, called |-> r.called,
                             first |-> Len(layers) + 1, loaded |-> constants_loaded])
    /\ UNCHANGED shape_dict

\* _convert_node_nd(builder, node, graph, err) on the current network
Convert(n) == Converts(n, convert_node_nd(n, Graph))

Plain(op, inputs, nout, attrs) ==
    Node(op, Fresh, inputs, Outputs(Fresh, nout), attrs, InputTensors(inputs))

ConcatNodes ==
    {Plain("Concat", <<d, c>>, 1, [axis |-> 0]) : d \in Data, c \in {"K0", "K3"}}

ConstantNodes ==
    {Plain("Constant", <<>>, 1, [value |-> v]) : v \in {Initializers["K0"], Initializers["K3"]}}

ConstantOfShapeNodes ==
    {Plain("ConstantOfShape", <<s>>, 1, a) : s \in Data \cup {"I"},
                                            a \in {NoAttrs, [value |-> <<3>>]}}

GatherNodes ==
    {Plain("Gather", i, 1, NoAttrs) :
        i \in {<<"K3">>, <<"K3", "I">>, <<"K3", "I", "K0">>}
              \cup {<<d, "I">> : d \in Data}}

LstmNodes ==
    {Plain("LSTM", <<d, "W", "R">>, 1, [hidden_size |-> 1]) : d \in Data}
    \cup {Plain("LSTM", <<d, "W", "R", "B", "", "H0">>, 3, [hidden_size |-> 1]) : d \in Data}
    \cup {Plain("LSTM", <<d, "Wb", "Rb">>, 1,
                [hidden_size |-> 1, direction |-> "bidirectional"]) : d \in Data}

MatMulNodes ==
    {Plain("MatMul", <<d, w>>, 1, NoAttrs) : d \in Data \cup {"K3"}, w \in {"K2", "K3", "X"}}

ReluNodes == {Plain("Relu", <<d>>, 1, NoAttrs) : d \in Data}

ReshapeNodes == {Plain("Reshape", <<d, s>>, 1, NoAttrs) : d \in Data, s \in {"S", "K3", "X"}}

SliceNodes ==
    {Plain("Slice", <<d>>, 1, [starts |-> <<1>>, ends |-> <<2>>, axes |-> <<0>>]) :
        d \in Data}

SplitNodes == {Plain("Split", <<d>>, 2, a) : d \in Data, a \in {NoAttrs, [axis |-> 1]}}

ShapeNodes == {Plain("Shape", <<d>>, 1, NoAttrs) : d \in Data}

SqueezeNodes == {Plain("Squeeze", <<d>>, 1, [axes |-> <<1>>]) : d \in Data}

TransposeNodes ==
    {Plain("Transpose", <<d>>, 1, a) : d \in Data, a \in {NoAttrs, [perm |-> <<1, 0, 2>>]}}

UnsqueezeNodes == {Plain("Unsqueeze", <<d>>, 1, [axes |-> <<0>>]) : d \in Data}

\* op types without a registry entry
UnregisteredNodes ==
    {Plain(op, <<d>>, 1, NoAttrs) : op \in {"Conv", "concat", ""}, d \in Data}

DoConcat == CanConvert /\ \E n \in ConcatNodes : Convert(n)

DoConstant == CanConvert /\ \E n \in ConstantNodes : Convert(n)

DoConstantOfShape == CanConvert /\ \E n \in ConstantOfShapeNodes : Convert(n)

DoGather == CanConvert /\ \E n \in GatherNodes : Convert(n)

DoLstm == CanConvert /\ \E n \in LstmNodes : Convert(n)

DoMatMul == CanConvert /\ \E n \in MatMulNodes : Convert(n)

DoRelu == CanConvert /\ \E n \in ReluNodes : Convert(n)

DoReshape == CanConvert /\ \E n \in ReshapeNodes : Convert(n)

DoSlice == CanConvert /\ \E n \in SliceNodes : Convert(n)

DoSplit == CanConvert /\ \E n \in SplitNodes : Convert(n)

DoShape == CanConvert /\ \E n \in ShapeNodes : Convert(n)

DoSqueeze == CanConvert /\ \E n \in SqueezeNodes : Convert(n)

DoTranspose == CanConvert /\ \E n \in TransposeNodes : Convert(n)

DoUnsqueeze == CanConvert /\ \E n \in UnsqueezeNodes : Convert(n)

DoUnregistered == CanConvert /\ \E n \in UnregisteredNodes : Convert(n)

Init ==
    /\ layers = <<>>
    /\ constants_loaded = {}
    /\ shape_dict \in {ShapesInferred, ShapesOfInputs}
    /\ err = "none"
    /\ done = <<>>

Next ==
    \/ DoConcat
    \/ DoConstant
    \/ DoConstantOfShape
    \/ DoGather
    \/ DoLstm
    \/ DoMatMul
    \/ DoRelu
    \/ DoReshape
    \/ DoSlice
    \/ DoSplit
    \/ DoShape
    \/ DoSqueeze
    \/ DoTranspose
    \/ DoUnsqueeze
    \/ DoUnregistered

Spec == Init /\ [][Next]_vars

(***************************************************************************)
(* One LSTM node with each direction, input count, output count, input     *)
(* rank and activations list.                                              *)
(***************************************************************************)
\* the first nin of the LSTM inputs X, W, R, B, sequence_lens, initial_h,
\* initial_c, P
LstmInputs(x, w, r, b, nin) == SubSeq(<<x, w, r, b, "", "H0", "C0", "P">>, 1, nin)

LstmAttrs(h, dir, act) ==
    [k \in {"hidden_size"} \cup (IF dir = "absent" THEN {} ELSE {"direction"})
                           \cup (IF act = <<>> THEN {} ELSE {"activations"}) |->
        CASE k = "hidden_size" -> h
          [] k = "direction"   -> dir
          [] k = "activations" -> act]

LstmNode(x, bidir, nin, nout, attrs) ==
    Node("LSTM", "n1",
         IF bidir THEN LstmInputs(x, "Wb", "Rb", "Bb", nin)
         ELSE LstmInputs(x, "W", "R", "B", nin),
         Outputs("n1", nout), attrs,
         IF bidir THEN InputTensors(LstmInputs(x, "Wb", "Rb", "Bb", nin))
         ELSE InputTensors(LstmInputs(x, "W", "R", "B", nin)))

LstmDirectionNodes ==
    {LstmNode(x, dir = "bidirectional", nin, nout, LstmAttrs(1, dir, act)) :
        x \in {"X", "X5"},
        dir \in {"absent", "forward", "bidirectional", "reverse", "sideways"},
        nin \in {3, 4, 6, 7, 8},
        nout \in {1, 3},
        act \in {<<>>, <<"SIGMOID", "TANH">>, <<"SIGMOID", "TANH", "RELU">>}}

LstmOnce == done = <<>> /\ err = "none" /\ \E n \in LstmDirectionNodes : Convert(n)

NextLstm == LstmOnce

SpecLstm == Init /\ [][NextLstm]_vars

(***************************************************************************)
(* One LSTM node with each hidden size, direction count and weight data.   *)
(***************************************************************************)
LstmWeightNode(num_dir, h, W, R, B) ==
    Node("LSTM", "n1",
         IF IsNone(B) THEN <<"X", "W", "R">> ELSE <<"X", "W", "R", "B">>,
         Outputs("n1", 1),
         LstmAttrs(h, IF num_dir = 2 THEN "bidirectional" ELSE "absent", <<>>),
         IF IsNone(B) THEN [k \in {"W", "R"} |-> IF k = "W" THEN W ELSE R]
         ELSE [k \in {"W", "R", "B"} |-> IF k = "W" THEN W ELSE IF k = "R" THEN R ELSE B[1]])

LstmWeightNodesOf(num_dir, h) ==
    {LstmWeightNode(num_dir, h, LstmW(num_dir, h, wbase), LstmR(num_dir, h, rbase), B) :
        wbase \in {0, 50, 100},
        rbase \in {200, 250, 300},
        B \in {None} \cup {Some(LstmB(num_dir, h, bbase)) : bbase \in {400, 450, -500}}}

LstmWeightNodes ==
    UNION {LstmWeightNodesOf(num_dir, h) : num_dir \in {1, 2}, h \in 1..MaxHidden}

WeightsOnce == done = <<>> /\ err = "none" /\ \E n \in LstmWeightNodes : Convert(n)

NextWeights == WeightsOnce

SpecWeights == Init /\ [][NextWeights]_vars

(***************************************************************************)
(* One Reshape or one Slice node on an input of each rank.                 *)
(***************************************************************************)
\* "X1", "X2", ..: a graph input of each rank, every axis of size 4
RankInputs == {"X" \o Str(r) : r \in 1..MaxRank}

RankShapes ==
    [k \in RankInputs |-> Repeat(4, CHOOSE r \in 1..MaxRank : k = "X" \o Str(r))]

InitRanks ==
    /\ layers = <<>>
    /\ constants_loaded = {}
    /\ shape_dict = RankShapes
    /\ err = "none"
    /\ done = <<>>

\* the target shapes: every list of up to MaxRank entries out of -1, 0, 2
TargetShapes == UNION {[1..l -> {-1, 0, 2}] : l \in 0..MaxRank}

ReshapeShapeNodes ==
    {Node("Reshape", "n1", <<x, "shape">>, Outputs("n1", 1), NoAttrs,
          [k \in {"shape"} |-> Tensor(<<Len(t)>>, t)]) :
        x \in RankInputs \cup {"U"}, t \in TargetShapes}
    \cup {Node("Reshape", "n1", <<x, "shape">>, Outputs("n1", 1), NoAttrs, NoAttrs) :
            x \in RankInputs \cup {"U"}}

ReshapeOnce == done = <<>> /\ err = "none" /\ \E n \in ReshapeShapeNodes : Convert(n)

NextReshape == ReshapeOnce

SpecReshape == InitRanks /\ [][NextReshape]_vars

\* the axes attribute: one axis, or two different axes in either order
SliceAxes(r) ==
    {<<a>> : a \in 0..(r - 1)}
    \cup {p \in (0..(r - 1)) \X (0..(r - 1)) : p[1] # p[2]}

SliceAttrs(starts, ends, axes, steps) ==
    [k \in {"starts", "ends"} \cup (IF IsNone(axes) THEN {} ELSE {"axes"})
                              \cup (IF IsNone(steps) THEN {} ELSE {"steps"}) |->
        CASE k = "starts" -> starts
          [] k = "ends"   -> ends
          [] k = "axes"   -> axes[1]
          [] k = "steps"  -> steps[1]]

\* the Slice nodes on an input of rank r that name the axes ax (None: the
\* attribute is absent), n being the number of axes sliced
SliceNodesOn(r, ax, n) ==
    {Node("Slice", "n1", <<"X" \o Str(r)>>, Outputs("n1", 1),
          SliceAttrs(starts, ends, ax, steps), NoAttrs) :
        starts \in [1..n -> {0, 1}],
        ends \in [1..n -> {2, 5, INT_MAX}],
        steps \in {None, Some(Repeat(2, n))}}

SliceAttrNodes ==
    UNION {SliceNodesOn(r, None, r) : r \in 1..MaxRank}
    \cup UNION {UNION {SliceNodesOn(r, Some(ax), Len(ax)) : ax \in SliceAxes(r)} :
                   r \in 1..MaxRank}

SliceOnce == done = <<>> /\ err = "none" /\ \E n \in SliceAttrNodes : Convert(n)

NextSlice == SliceOnce

SpecSlice == InitRanks /\ [][NextSlice]_vars

(***************************************************************************)
(* Node sequences that end in an error: LSTM nodes whose W or R is not an  *)
(* initializer, Reshape nodes with wildcard target shapes, Gather nodes    *)
(* and nodes of unregistered op types, after nodes that added layers.      *)
(***************************************************************************)
\* LSTM nodes whose W is the initializer or the run-time tensor "W_in", and
\* whose R is the initializer or the run-time tensor "R_in"
LstmMissingNodesOn(d, tail) ==
    {Node("LSTM", Fresh, <<d, w, r>> \o tail, Outputs(Fresh, 1), LstmAttrs(1, dir, act),
          InputTensors(<<d, w, r>> \o tail)) :
        w \in {"W", "W_in"},
        r \in {"R", "R_in"},
        dir \in {"absent", "bidirectional"},
        act \in {<<>>, <<"SIGMOID", "TANH">>}}

LstmMissingNodes ==
    UNION {LstmMissingNodesOn(d, tail) : d \in Data, tail \in {<<>>, <<"B">>}}

DoLstmMissing == CanConvert /\ \E n \in LstmMissingNodes : Convert(n)

\* Reshape nodes whose target is a list of up to two entries out of -1, 0
ReshapeWildcardNodes ==
    {Node("Reshape", Fresh, <<d, "shape">>, Outputs(Fresh, 1), NoAttrs,
          [k \in {"shape"} |-> Tensor(<<Len(t)>>, t)]) :
        d \in Data, t \in UNION {[1..l -> {-1, 0}] : l \in 0..2}}

DoReshapeWildcard == CanConvert /\ \E n \in ReshapeWildcardNodes : Convert(n)

NextErrors ==
    \/ DoConcat
    \/ DoGather
    \/ DoUnregistered
    \/ DoLstmMissing
    \/ DoReshapeWildcard

SpecErrors == Init /\ [][NextErrors]_vars

(***************************************************************************)
(* Properties.                                                             *)
(***************************************************************************)
\* the position of the last layer node i of done emitted (below its first
\* layer when it emitted none)
LastOf(i) == IF i < Len(done) THEN done[i + 1].first - 1 ELSE Len(layers)

\* the layers node i of done emitted
LayersOf(i) == SubSeq(layers, done[i].first, LastOf(i))

\* the exception node i of done ended with ("none": it ended normally)
ErrOf(i) == IF i < Len(done) THEN "none" ELSE err

\* C1: the target network holds at most one load-constant layer per output
\* tensor name, whatever nodes were converted against the shared graph.
C1_OneLoadPerName ==
    \A i, j \in 1..Len(layers) :
        (/\ layers[i].kind = "load_constant_nd"
         /\ layers[j].kind = "load_constant_nd"
         /\ layers[i].output_names = layers[j].output_names) => i = j

\* the layer kinds a converter ends with, by op type
MainKinds(op) ==
    CASE op = "Concat"          -> {"concat_nd"}
      [] op = "Constant"        -> {"load_constant_nd"}
      [] op = "ConstantOfShape" -> {"fill_static", "fill_dynamic"}
      [] op = "Gather"          -> {"gather"}
      [] op = "LSTM"            -> {"unilstm", "bidirlstm"}
      [] op = "MatMul"          -> {"batched_mat_mul"}
      [] op = "Relu"            -> {"activation"}
      [] op = "Reshape"         -> {"rank_preserving_reshape", "squeeze", "reshape_static",
                                    "reshape_dynamic"}
      [] op = "Slice"           -> {"slice_static"}
      [] op = "Split"           -> {"split_nd"}
      [] op = "Shape"           -> {"get_shape"}
      [] op = "Squeeze"         -> {"squeeze"}
      [] op = "Transpose"       -> {"transpose"}
      [] op = "Unsqueeze"       -> {"expand_dims"}
      [] OTHER                  -> {}

\* C2: a node of a registered op type is handed to exactly the converter
\* registered under that name, once, and a conversion that ends normally
\* left that converter's layer under the node's name; a node of an
\* unregistered op type ends in the unsupported-operator error with no
\* converter called and no layer appended.
C2_Dispatch ==
    \A i \in 1..Len(done) :
        IF done[i].node.op_type \in DOMAIN ONNX_NODE_REGISTRY_ND
        THEN /\ done[i].called = <<ONNX_NODE_REGISTRY_ND[done[i].node.op_type]>>
             /\ ErrOf(i) = "none" =>
                    \E k \in done[i].first..LastOf(i) :
                        /\ layers[k].name = done[i].node.name
                        /\ layers[k].kind \in MainKinds(done[i].node.op_type)
        ELSE /\ done[i].called = <<>>
             /\ ErrOf(i) = "unsupported_op"
             /\ LayersOf(i) = <<>>
             /\ constants_loaded = done[i].loaded

\* a registered node was converted and then an unregistered one was refused
C2_Witness ==
    /\ Len(done) = 2
    /\ done[1].called = <<"_convert_gather">>
    /\ Len(layers) > 0
    /\ done[2].node.op_type = "Conv"
    /\ err = "unsupported_op"

\* the number of layers of kind k node i of done emitted
CountOf(i, k) == Cardinality({p \in done[i].first..LastOf(i) : layers[p].kind = k})

\* C3: an LSTM node whose direction attribute is absent or "forward" gets
\* exactly one unidirectional LSTM layer and no bidirectional one; one whose
\* direction is "bidirectional" gets exactly one bidirectional LSTM layer and
\* exactly two concatenation layers; one with any other direction string
\* ends in an error with no layer emitted for it.
C3_DirectionDispatch ==
    \A i \in 1..Len(done) :
        done[i].node.op_type = "LSTM" =>
            CASE AttrGet(done[i].node.attrs, "direction", "forward") = "forward" ->
                    ErrOf(i) = "none" =>
                        /\ CountOf(i, "unilstm") = 1
                        /\ CountOf(i, "bidirlstm") = 0
              [] AttrGet(done[i].node.attrs, "direction", "forward") = "bidirectional" ->
                    ErrOf(i) = "none" =>
                        /\ CountOf(i, "bidirlstm") = 1
                        /\ CountOf(i, "unilstm") = 0
                        /\ CountOf(i, "concat_nd") = 2
              [] OTHER ->
                    /\ ErrOf(i) # "none"
                    /\ LayersOf(i) = <<>>

\* the names of s, as a set
Names(s) == {s[i] : i \in 1..Len(s)}

\* the tensors the layers before position p put out
ProducedBefore(p) == UNION {Names(layers[q].output_names) : q \in 1..(p - 1)}

\* C4: every input name a layer of the network consumes is a graph input or
\* the output of an earlier layer (a load-constant layer for a constant).
C4_DataflowClosed ==
    \A p \in 1..Len(layers) :
        Names(layers[p].input_names) \subseteq GraphInputs \cup ProducedBefore(p)

\* C5: no two layers of the network declare the same output tensor name.
C5_UniqueOutputNames ==
    \A p, q \in 1..Len(layers) :
        Names(layers[p].output_names) \cap Names(layers[q].output_names) # {} => p = q

\* C6: a Gather node whose number of inputs is not 2 ends in the
\* unsupported-configuration error with no layer emitted for it, neither a
\* load-constant nor a gather layer, and the constants-loaded set as it was.
C6_GatherInputCount ==
    \A i \in 1..Len(done) :
        (done[i].node.op_type = "Gather" /\ Len(done[i].node.inputs) # 2) =>
            /\ ErrOf(i) = "unsupported_op_configuration"
            /\ LayersOf(i) = <<>>
            /\ constants_loaded = done[i].loaded

\* a Gather node with a constant data input and three inputs was refused
\* after a node that had loaded a constant
C6_Witness ==
    /\ Len(done) = 2
    /\ done[1].loaded = {}
    /\ done[2].loaded = {"K3"}
    /\ done[2].node.op_type = "Gather"
    /\ done[2].node.inputs = <<"K3", "I", "K0">>
    /\ err = "unsupported_op_configuration"

\* the constant target shape of Reshape node n
TargetOf(n) == n.input_tensors[n.inputs[2]].data

\* Reshape node n reduces the known rank of its input with a constant
\* target shape of entries 0 and -1, at most one of them -1
ReducesRank(n) ==
    /\ n.op_type = "Reshape"
    /\ n.inputs[2] \in DOMAIN n.input_tensors
    /\ n.inputs[1] \in DOMAIN shape_dict
    /\ Len(TargetOf(n)) < Len(shape_dict[n.inputs[1]])
    /\ \A k \in 1..Len(TargetOf(n)) : TargetOf(n)[k] \in {0, -1}
    /\ Cardinality({k \in 1..Len(TargetOf(n)) : TargetOf(n)[k] = -1}) <= 1

\* the layers ls are a rank-preserving reshape to the target shape followed
\* by pad trailing 1s, then a squeeze of those pad trailing axes into the
\* output of node n
IsReshapeThenSqueeze(ls, n, pad) ==
    /\ Len(ls) = 2
    /\ ls[1].kind = "rank_preserving_reshape"
    /\ ls[1].input_names = <<n.inputs[1]>>
    /\ ls[1].params.output_shape = TargetOf(n) \o Repeat(1, pad)
    /\ ls[2].kind = "squeeze"
    /\ ls[2].input_names = ls[1].output_names
    /\ Len(ls[2].params.axes) = pad
    /\ Names(ls[2].params.axes) = {-j : j \in 1..pad}
    /\ ls[2].output_names = <<n.outputs[1]>>

\* C7: a Reshape node whose constant target shape is shorter than the known
\* rank r of its input and holds only 0 and -1, -1 at most once, gets exactly
\* two layers: a rank-preserving reshape whose shape is the target shape
\* followed by r - len(target) trailing 1s, then a squeeze of exactly those
\* trailing axes that writes the node's output.
C7_RankReduction ==
    \A i \in 1..Len(done) :
        ReducesRank(done[i].node) =>
            IsReshapeThenSqueeze(LayersOf(i), done[i].node,
                                 Len(shape_dict[done[i].node.inputs[1]])
                                 - Len(TargetOf(done[i].node)))

\* the axes Slice node n names: its axes attribute, else every axis in order
AxesOf(n) == AttrGet(n.attrs, "axes", Range0(Len(shape_dict[n.inputs[1]])))

\* the 1-based positions of the axes Slice node n names
NamedOf(n) == {AxesOf(n)[j] + 1 : j \in 1..Len(AxesOf(n))}

\* the masks of layer l at the j-th axis Slice node n names follow the rule
MasksFollowRule(l, n, j) ==
    /\ l.params.begin_masks[AxesOf(n)[j] + 1] = (n.attrs["starts"][j] = 0)
    /\ l.params.end_masks[AxesOf(n)[j] + 1] =
           ~(/\ n.attrs["ends"][j] < INT_MAX
             /\ n.attrs["ends"][j] < shape_dict[n.inputs[1]][AxesOf(n)[j] + 1])

\* C8: in the static-slice layer of a Slice node, the begin mask of every
\* axis named in axes is True unless the start given for it is non-zero, and
\* its end mask is True unless the end given for it is both below 2^30 and
\* below the axis's known size.
C8_SliceMasks ==
    \A i \in 1..Len(done) :
        (done[i].node.op_type = "Slice" /\ Len(LayersOf(i)) = 1) =>
            \A j \in 1..Len(AxesOf(done[i].node)) :
                MasksFollowRule(LayersOf(i)[1], done[i].node, j)

\* the arrays ps of a static-slice layer have length r each
FullRank(ps, r) ==
    /\ Len(ps.begin_ids) = r
    /\ Len(ps.end_ids) = r
    /\ Len(ps.strides) = r
    /\ Len(ps.begin_masks) = r
    /\ Len(ps.end_masks) = r

\* position p, not named in axes, is left unsliced by the arrays ps
Unsliced(ps, p) ==
    /\ ps.begin_ids[p] = 0
    /\ ps.end_ids[p] = 0
    /\ ps.strides[p] = 1
    /\ ps.begin_masks[p]
    /\ ps.end_masks[p]

\* C9: a Slice node on an input of known rank r gets one static-slice layer
\* whose begin_ids, end_ids, strides, begin_masks and end_masks have length r
\* each; an axis named in axes has the start and end given for it, an axis
\* not named has begin id 0, end id 0, stride 1 and both masks True.
C9_SliceFullRank ==
    \A i \in 1..Len(done) :
        done[i].node.op_type = "Slice" =>
            /\ Len(LayersOf(i)) = 1
            /\ LayersOf(i)[1].kind = "slice_static"
            /\ FullRank(LayersOf(i)[1].params, Len(shape_dict[done[i].node.inputs[1]]))
            /\ \A j \in 1..Len(AxesOf(done[i].node)) :
                   /\ LayersOf(i)[1].params.begin_ids[AxesOf(done[i].node)[j] + 1]
                          = done[i].node.attrs["starts"][j]
                   /\ LayersOf(i)[1].params.end_ids[AxesOf(done[i].node)[j] + 1]
                          = done[i].node.attrs["ends"][j]
            /\ \A p \in (1..Len(shape_dict[done[i].node.inputs[1]])) \ NamedOf(done[i].node) :
                   Unsliced(LayersOf(i)[1].params, p)

\* the target order of the gates (input, forget, output, cell) as 0-based
\* positions in the ONNX order (input, output, forget, cell)
TargetOrder == <<0, 2, 1, 3>>

\* the entries of chunk k of the n equal chunks of direction d of tensor t
\* (d and k count from 0)
ChunkData(t, d, k, n) ==
    SubSeq(t.data,
           d * (Len(t.data) \div t.shape[1]) + k * ((Len(t.data) \div t.shape[1]) \div n) + 1,
           d * (Len(t.data) \div t.shape[1]) + (k + 1) * ((Len(t.data) \div t.shape[1]) \div n))

\* gates are the four chunks of direction d of t in target order
GatesAre(gates, t, d) ==
    /\ Len(gates) = 4
    /\ \A j \in 1..4 : gates[j].data = ChunkData(t, d, TargetOrder[j], 4)

\* b is absent when node n has no B, else the four sums of the input-side
\* and the recurrent-side chunk of each gate of direction d of B
BiasIs(b, n, d) ==
    IF Len(n.inputs) < 4
    THEN b = None
    ELSE /\ Len(b) = 1
         /\ Len(b[1]) = 4
         /\ \A j \in 1..4 :
                /\ Len(b[1][j].data) = n.attrs["hidden_size"]
                /\ \A e \in 1..Len(b[1][j].data) :
                       b[1][j].data[e] =
                           ChunkData(n.input_tensors[n.inputs[4]], d, TargetOrder[j], 8)[e]
                           + ChunkData(n.input_tensors[n.inputs[4]], d, TargetOrder[j] + 4, 8)[e]

\* the weights ps of direction 0 of an LSTM layer of node n are repacked
Repacked(ps, n) ==
    /\ GatesAre(ps.W_x, n.input_tensors[n.inputs[2]], 0)
    /\ GatesAre(ps.W_h, n.input_tensors[n.inputs[3]], 0)
    /\ BiasIs(ps.b, n, 0)

\* the weights ps of direction 1 of a bidirectional LSTM layer of node n are
\* repacked
RepackedBack(ps, n) ==
    /\ GatesAre(ps.W_x_back, n.input_tensors[n.inputs[2]], 1)
    /\ GatesAre(ps.W_h_back, n.input_tensors[n.inputs[3]], 1)
    /\ BiasIs(ps.b_back, n, 1)

\* C10: the W_x and W_h an LSTM layer is given are chunks 0, 2, 1, 3 of the
\* four equal gate chunks of W and R; its bias is B0+B4, B2+B6, B1+B5, B3+B7
\* of the eight equal chunks of B, elementwise, and is absent when B is.
C10_WeightRepacking ==
    \A i \in 1..Len(done) :
        (done[i].node.op_type = "LSTM" /\ ErrOf(i) = "none") =>
            /\ CountOf(i, "unilstm") + CountOf(i, "bidirlstm") = 1
            /\ \A p \in done[i].first..LastOf(i) :
                   /\ layers[p].kind \in {"unilstm", "bidirlstm"} =>
                          Repacked(layers[p].params, done[i].node)
                   /\ layers[p].kind = "bidirlstm" =>
                          RepackedBack(layers[p].params, done[i].node)

\* a bidirectional LSTM layer of hidden size 2 was given summed biases
C10_Witness ==
    /\ Len(done) = 1
    /\ err = "none"
    /\ done[1].node.attrs["hidden_size"] = 2
    /\ Len(done[1].node.inputs) = 4
    /\ \E p \in 1..Len(layers) :
           /\ layers[p].kind = "bidirlstm"
           /\ layers[p].params.b # None
           /\ layers[p].params.b_back # None

\* C11: an LSTM node (with a valid activations list) whose W or R is not in
\* the node's constant-input table ends in the missing-initializer error,
\* with no layer emitted for it.
C11_MissingInitializer ==
    \A i \in 1..Len(done) :
        (/\ done[i].node.op_type = "LSTM"
         /\ \/ "activations" \notin DOMAIN done[i].node.attrs
            \/ Len(done[i].node.attrs["activations"]) >= 3
         /\ \/ done[i].node.inputs[2] \notin DOMAIN done[i].node.input_tensors
            \/ done[i].node.inputs[3] \notin DOMAIN done[i].node.input_tensors) =>
            /\ ErrOf(i) = "missing_initializer"
            /\ LayersOf(i) = <<>>

\* the errors of the fatal paths: unsupported operator, unsupported
\* configuration, missing initializer
FatalErrors == {"unsupported_op", "unsupported_op_configuration", "missing_initializer"}

\* C12: a node conversion that ends in a fatal error has appended no layer
\* and added no name to the constants-loaded set, and has left the layers of
\* the nodes converted before it as they were.
C12_FatalAllOrNothing ==
    [][err' \in FatalErrors => (layers' = layers /\ constants_loaded' = constants_loaded)]_vars

\* a Reshape node with two wildcard entries was refused after a node that
\* had added layers and loaded a constant
C12_Witness ==
    /\ Len(done) = 2
    /\ done[2].loaded = {"K3"}
    /\ done[2].node.op_type = "Reshape"
    /\ Count(TargetOf(done[2].node), -1) = 2
    /\ err = "unsupported_op_configuration"
    /\ Len(layers) = 2
    /\ constants_loaded = {"K3"}

\* the layers ls are one load-constant layer that puts out the first output
\* of Constant node n, with shape [1] for a value of rank 0 and the shape of
\* the value otherwise
IsLoadOfValue(ls, n) ==
    /\ Len(ls) = 1
    /\ ls[1].kind = "load_constant_nd"
    /\ ls[1].output_names = <<n.outputs[1]>>
    /\ ls[1].params.constant_value = n.attrs["value"]
    /\ ls[1].params.shape = IF Len(n.attrs["value"].shape) = 0 THEN <<1>>
                            ELSE n.attrs["value"].shape

\* C13: the conversion of a Constant node ends without error, appends
\* exactly one load-constant layer for the node's first output (shape [1]
\* for a value of rank 0, else the value's shape), and leaves that output
\* name in the constants-loaded set.
C13_ConstantRecorded ==
    \A i \in 1..Len(done) :
        done[i].node.op_type = "Constant" =>
            /\ ErrOf(i) = "none"
            /\ IsLoadOfValue(LayersOf(i), done[i].node)
            /\ done[i].node.outputs[1] \in constants_loaded

\* the bidirectional LSTM layer l of node n has the two halves of the
\* peephole split as peep and peep_back when n has a peephole input, and
\* neither when it has none
PeepholesGiven(l, n) ==
    IF Len(n.inputs) > 7
    THEN /\ l.params.peep = Some(n.inputs[8] \o "_f")
         /\ l.params.peep_back = Some(n.inputs[8] \o "_b")
    ELSE /\ l.params.peep = None
         /\ l.params.peep_back = None

\* C14: the bidirectional LSTM layer of a node with a peephole input (8
\* inputs) has the two outputs of the peephole split layer, peepholes_f and
\* peepholes_b, as its peep and peep_back; they are absent only when the
\* node has no peephole input.
C14_BidirPeepholes ==
    \A i \in 1..Len(done) :
        \A p \in done[i].first..LastOf(i) :
            layers[p].kind = "bidirlstm" => PeepholesGiven(layers[p], done[i].node)

====
